---- MODULE Spec2Model ----
(***************************************************************************)
(* State-machine model of kg-construction.py: the script that builds the   *)
(* MovieLens knowledge graph in Neo4j by a fixed sequence of Cypher        *)
(* statements (graph.query calls, lines 14-175).                           *)
(*                                                                         *)
(* The graph is a record of bags: one bag of node records per label and    *)
(* one bag of relationship records per type.  Bags (not sets) are used so  *)
(* that CREATE, which adds a relationship even when an equal one exists,   *)
(* and MERGE, which does not, are different operations.                    *)
(*                                                                         *)
(* Text is a sequence of one-character strings, so that trim, toLower and  *)
(* split are computed as Cypher computes them.  Ratings are in tenths of a *)
(* point (30 = 3.0), HAS_TAG.weight is in tenths (tagFrequency * 0.1 is    *)
(* tagFrequency tenths), a mean is the reduced fraction <<num, den>>.      *)
(* An unset (null) property is <<>>; a set one is a non-empty tuple.       *)
(* Input rows are well-formed: every numeric field parses.                 *)
(***************************************************************************)
EXTENDS Integers, Sequences, FiniteSets, Bags, TLC

\* ---------------------------------------------------------------- bounds
MaxMovieRows == 2
MaxRatingRows == 2
MaxTagRows == 2
MaxRuns == 2
MaxBatchRows == 1

\* `IN TRANSACTIONS OF 1000 ROWS`
TRANSACTION_ROWS == 1000

\* The batch size the model runs with: the program's, capped by MaxBatchRows.
BatchRows == IF TRANSACTION_ROWS < MaxBatchRows THEN TRANSACTION_ROWS ELSE MaxBatchRows

\* ------------------------------------------------------------- null, text
Null == <<>>

IsSpace(c) == c = " "

LowerOf(c) == CASE c = "G" -> "g" [] c = "M" -> "m" [] OTHER -> c

toLower(s) == [i \in 1..Len(s) |-> LowerOf(s[i])]

RECURSIVE ltrim(_)
ltrim(s) == IF s # <<>> /\ IsSpace(Head(s)) THEN ltrim(Tail(s)) ELSE s

RECURSIVE rtrim(_)
rtrim(s) == IF s # <<>> /\ IsSpace(s[Len(s)]) THEN rtrim(SubSeq(s, 1, Len(s) - 1)) ELSE s

trim(s) == rtrim(ltrim(s))

\* split(s, '|'): the tokens between delimiters; split(null) is null, over
\* which FOREACH iterates zero times (a missing CSV field is null).
RECURSIVE SplitFrom(_, _, _)
SplitFrom(s, i, cur) ==
    IF i > Len(s) THEN <<cur>>
    ELSE IF s[i] = "|" THEN <<cur>> \o SplitFrom(s, i + 1, <<>>)
    ELSE SplitFrom(s, i + 1, Append(cur, s[i]))

split(s) == IF s = Null THEN <<>> ELSE SplitFrom(s, 1, <<>>)

\* ------------------------------------------------------------ arithmetic
RECURSIVE GCD(_, _)
GCD(a, b) == IF b = 0 THEN a ELSE GCD(b, a % b)

\* avg(): the mean of n values with the given sum, as a reduced fraction.
Mean(sum, n) == <<sum \div GCD(sum, n), n \div GCD(sum, n)>>

RECURSIVE SumFn(_)
SumFn(f) ==
    IF DOMAIN f = {} THEN 0
    ELSE LET x == CHOOSE y \in DOMAIN f : TRUE
         IN  f[x] + SumFn([y \in DOMAIN f \ {x} |-> f[y]])

\* The elements of bag B that are in set S, with their multiplicities.
SubBagOf(B, S) == [e \in S \cap BagToSet(B) |-> CopiesIn(e, B)]

BagSize(B) == SumFn([e \in BagToSet(B) |-> CopiesIn(e, B)])

\* Sum of f[e] over the elements of bag B, multiplicities counted.
BagSum(B, f) == SumFn([e \in BagToSet(B) |-> f[e] * CopiesIn(e, B)])

BagAdd(B, e) == B (+) SetToBag({e})

\* ---------------------------------------------------------------- inputs
\* movies_small.csv rows (movieId, title, imdbRating, director, actors, genres).
MovieRowSet ==
    { [movieId |-> "10", title |-> "T10", imdbRating |-> 80,
       director |-> <<"a">>, actors |-> <<"a">>, genres |-> <<"x">>],
      [movieId |-> "20", title |-> "T20", imdbRating |-> 75,
       director |-> <<"c">>, actors |-> <<" ", "a", "|", "b">>,
       genres |-> <<"x", "|", "y", " ">>] }

\* ratings.csv rows; movieId "999" is in no movie row.
RatingRowSet ==
    { [userId |-> "1", movieId |-> "10", rating |-> 30, timestamp |-> 1],
      [userId |-> "1", movieId |-> "20", rating |-> 50, timestamp |-> 2],
      [userId |-> "2", movieId |-> "999", rating |-> 40, timestamp |-> 3] }

\* tags.csv rows; movieId "20" is unknown when the feed has movie "10" only.
TagRowSet ==
    { [userId |-> "1", movieId |-> "10", tag |-> <<"G", "M", " ">>, timestamp |-> 1],
      [userId |-> "2", movieId |-> "10", tag |-> <<"g", "m">>, timestamp |-> 2],
      [userId |-> "1", movieId |-> "20", tag |-> <<"g", "m">>, timestamp |-> 3] }

SeqsUpTo(S, n) == UNION {[1..k -> S] : k \in 0..n}

\* A movie feed lists a movie once (movieId is the key of movies_small.csv).
MovieFeeds ==
    {f \in SeqsUpTo(MovieRowSet, MaxMovieRows) \ {<<>>} :
        \A i, j \in DOMAIN f : i # j => f[i] # f[j]}
\* ratings.csv holds one rating per (user, movie): no row twice.
RatingFeeds ==
    {f \in SeqsUpTo(RatingRowSet, MaxRatingRows) :
        \A i, j \in DOMAIN f : i # j => f[i] # f[j]}
TagFeeds == SeqsUpTo(TagRowSet, MaxTagRows)

\* ----------------------------------------------------------------- graph
EmptyGraph ==
    [Movie |-> EmptyBag, Person |-> EmptyBag, Genre |-> EmptyBag,
     User |-> EmptyBag, Tag |-> EmptyBag,
     DIRECTED |-> EmptyBag, ACTED_IN |-> EmptyBag, IN_GENRE |-> EmptyBag,
     RATED |-> EmptyBag, TAGGED |-> EmptyBag, HAS_TAG |-> EmptyBag,
     APPLIED_TAG |-> EmptyBag]

\* MERGE (m:Movie {id: id})
MergeMovie(g, id) ==
    IF \E n \in BagToSet(g.Movie) : n.id = id THEN g
    ELSE [g EXCEPT !.Movie = BagAdd(@, [id |-> id, title |-> Null, imdbRating |-> Null])]

\* SET m.title = row.title, m.imdbRating = toFloat(row.imdbRating), ...
SetMovie(g, row) ==
    [g EXCEPT !.Movie = BagOfAll(
        LAMBDA n : IF n.id = row.movieId
                   THEN [n EXCEPT !.title = <<row.title>>, !.imdbRating = <<row.imdbRating>>]
                   ELSE n, @)]

\* MERGE (p:Person {name: name})
MergePerson(g, name) ==
    IF \E n \in BagToSet(g.Person) : n.name = name THEN g
    ELSE [g EXCEPT !.Person = BagAdd(@, [name |-> name, labels |-> {},
                                           avgRating |-> Null, movieCount |-> Null])]

\* MERGE (g:Genre {name: name})
MergeGenre(g, name) ==
    IF \E n \in BagToSet(g.Genre) : n.name = name THEN g
    ELSE [g EXCEPT !.Genre = BagAdd(@, [name |-> name])]

\* MERGE of a relationship without properties: add e to bag B unless present.
MergeEdge(B, e) == IF BagIn(e, B) THEN B ELSE BagAdd(B, e)

\* FOREACH (x IN split(list, '|') | MERGE (node {name: trim(x)}) MERGE (edge))
\* for kind "director", "actor" or "genre", over the tokens still to do.
RECURSIVE ForEachToken(_, _, _, _)
ForEachToken(g, tokens, movieId, kind) ==
    IF tokens = <<>> THEN g
    ELSE LET name == trim(Head(tokens))
             g1 == CASE kind = "director" ->
                        [MergePerson(g, name) EXCEPT
                            !.DIRECTED = MergeEdge(@, [person |-> name, movie |-> movieId])]
                    [] kind = "actor" ->
                        [MergePerson(g, name) EXCEPT
                            !.ACTED_IN = MergeEdge(@, [person |-> name, movie |-> movieId])]
                    [] OTHER ->
                        [MergeGenre(g, name) EXCEPT
                            !.IN_GENRE = MergeEdge(@, [movie |-> movieId, genre |-> name])]
         IN  ForEachToken(g1, Tail(tokens), movieId, kind)

\* movies_query applied to one CSV row.
ApplyMovieRow(g, row) ==
    LET g1 == SetMovie(MergeMovie(g, row.movieId), row)
        g2 == ForEachToken(g1, split(row.director), row.movieId, "director")
        g3 == ForEachToken(g2, split(row.actors), row.movieId, "actor")
    IN  ForEachToken(g3, split(row.genres), row.movieId, "genre")

RECURSIVE ApplyMovieRows(_, _)
ApplyMovieRows(g, rows) ==
    IF rows = <<>> THEN g ELSE ApplyMovieRows(ApplyMovieRow(g, Head(rows)), Tail(rows))

\* An Actor label given to every Person, its relationships not matched.
LabelActorsAll(g) ==
    [g EXCEPT !.Person = BagOfAll(LAMBDA n : [n EXCEPT !.labels = @ \cup {"Actor"}], @)]

\* MATCH (p:Person)-[:ACTED_IN]->() SET p:Actor
LabelActors(g) ==
    [g EXCEPT !.Person = BagOfAll(
        LAMBDA n : IF \E e \in BagToSet(g.ACTED_IN) : e.person = n.name
                   THEN [n EXCEPT !.labels = @ \cup {"Actor"}] ELSE n, @)]

\* A Director pass that matches ACTED_IN, as the Actor pass does.
LabelDirectorsOfActors(g) ==
    [g EXCEPT !.Person = BagOfAll(
        LAMBDA n : IF \E e \in BagToSet(g.ACTED_IN) : e.person = n.name
                   THEN [n EXCEPT !.labels = @ \cup {"Director"}] ELSE n, @)]

\* MATCH (p:Person)-[:DIRECTED]->() SET p:Director
LabelDirectors(g) ==
    [g EXCEPT !.Person = BagOfAll(
        LAMBDA n : IF \E e \in BagToSet(g.DIRECTED) : e.person = n.name
                   THEN [n EXCEPT !.labels = @ \cup {"Director"}] ELSE n, @)]

\* CREATE where the script has MERGE: a User node per row.
CreateUser(g, id) ==
    [g EXCEPT !.User = BagAdd(@, [userId |-> id, avgRating |-> Null,
                                   totalRatings |-> Null])]

\* MERGE (u:User {userId: id})
MergeUser(g, id) ==
    IF \E n \in BagToSet(g.User) : n.userId = id THEN g
    ELSE [g EXCEPT !.User = BagAdd(@, [userId |-> id, avgRating |-> Null,
                                       totalRatings |-> Null])]

\* MATCH (m:Movie {id: id}): does the row survive the MATCH?
MovieExists(g, id) == \E n \in BagToSet(g.Movie) : n.id = id

\* ratings_query without its MATCH on the Movie: CREATE for every row.
ApplyRatingRowUnguarded(g, row) ==
    [MergeUser(g, row.userId) EXCEPT
        !.RATED = BagAdd(@, [user |-> row.userId, movie |-> row.movieId,
                             rating |-> row.rating, timestamp |-> row.timestamp])]

\* A rating loader that looks the Movie up first and merges the User only
\* for a row that has one.
ApplyRatingRowMatchFirst(g, row) ==
    IF MovieExists(g, row.movieId)
    THEN [MergeUser(g, row.userId) EXCEPT
             !.RATED = BagAdd(@, [user |-> row.userId, movie |-> row.movieId,
                                  rating |-> row.rating, timestamp |-> row.timestamp])]
    ELSE g

\* A loader that keeps one rating per user: the row is skipped when the user
\* already has a RATED relationship.
ApplyRatingRowFirstOnly(g, row) ==
    LET g1 == MergeUser(g, row.userId)
    IN  IF MovieExists(g1, row.movieId)
           /\ ~ \E r \in BagToSet(g1.RATED) : r.user = row.userId
        THEN [g1 EXCEPT !.RATED = BagAdd(@, [user |-> row.userId, movie |-> row.movieId,
                                             rating |-> row.rating,
                                             timestamp |-> row.timestamp])]
        ELSE g1

\* The CALL { ... } body of ratings_query for one row: the User is merged,
\* then a row whose MATCH finds no Movie yields nothing; otherwise CREATE.
ApplyRatingRow(g, row) ==
    LET g1 == MergeUser(g, row.userId)
    IN  IF MovieExists(g1, row.movieId)
        THEN [g1 EXCEPT !.RATED = BagAdd(@, [user |-> row.userId, movie |-> row.movieId,
                                             rating |-> row.rating,
                                             timestamp |-> row.timestamp])]
        ELSE g1

RECURSIVE ApplyRatingRows(_, _)
ApplyRatingRows(g, rows) ==
    IF rows = <<>> THEN g ELSE ApplyRatingRows(ApplyRatingRow(g, Head(rows)), Tail(rows))

\* The CALL { ... } body of tags_query for one row.
ApplyTagRow(g, row) ==
    LET g1 == MergeUser(g, row.userId)
    IN  IF MovieExists(g1, row.movieId)
        THEN [g1 EXCEPT !.TAGGED = BagAdd(@, [user |-> row.userId, movie |-> row.movieId,
                                              tag |-> row.tag,
                                              timestamp |-> row.timestamp])]
        ELSE g1

RECURSIVE ApplyTagRows(_, _)
ApplyTagRows(g, rows) ==
    IF rows = <<>> THEN g ELSE ApplyTagRows(ApplyTagRow(g, Head(rows)), Tail(rows))

\* A failed transaction whose writes stay.
RollbackKeepsWrites(committed, uncommitted) == uncommitted

\* What a transaction that fails leaves behind: the committed graph, none of
\* the failing transaction's own writes.
Rollback(committed, uncommitted) == committed

\* WITH m, t.tag AS rawTag, count(*) AS tagFrequency, t.timestamp AS tagTimestamp, u
\* The non-aggregated items are the grouping key.
GroupKey(e) == [movie |-> e.movie, rawTag |-> e.tag, tagTimestamp |-> e.timestamp,
                user |-> e.user]

TagGroups(g) ==
    { [movie |-> k.movie, rawTag |-> k.rawTag, tagTimestamp |-> k.tagTimestamp,
       user |-> k.user,
       tagFrequency |-> BagSize(SubBagOf(g.TAGGED,
                                         {e \in BagToSet(g.TAGGED) : GroupKey(e) = k}))]
      : k \in {GroupKey(e) : e \in BagToSet(g.TAGGED)} }

\* MERGE (tag:Tag {name: name})
MergeTag(g, name) ==
    IF \E n \in BagToSet(g.Tag) : n.name = name THEN g
    ELSE [g EXCEPT !.Tag = BagAdd(@, [name |-> name, usageCount |-> Null])]

\* MERGE (m)-[rel:HAS_TAG]->(tag) SET rel.weight = tagFrequency * 0.1
MergeHasTag(B, movie, name, frequency) ==
    IF \E e \in BagToSet(B) : e.movie = movie /\ e.tag = name
    THEN BagOfAll(LAMBDA e : IF e.movie = movie /\ e.tag = name
                             THEN [e EXCEPT !.weight = frequency] ELSE e, B)
    ELSE BagAdd(B, [movie |-> movie, tag |-> name, weight |-> frequency])

\* CREATE where the script has MERGE: an APPLIED_TAG relationship per row.
CreateAppliedTag(B, user, name, ts) ==
    BagAdd(B, [user |-> user, tag |-> name, timestamp |-> ts])

\* MERGE (u)-[ut:APPLIED_TAG]->(tag) SET ut.timestamp = tagTimestamp
MergeAppliedTag(B, user, name, ts) ==
    IF \E e \in BagToSet(B) : e.user = user /\ e.tag = name
    THEN BagOfAll(LAMBDA e : IF e.user = user /\ e.tag = name
                             THEN [e EXCEPT !.timestamp = ts] ELSE e, B)
    ELSE BagAdd(B, [user |-> user, tag |-> name, timestamp |-> ts])

\* The normalization with toLower only, the raw tag not trimmed.
ApplyTagGroupUntrimmed(g, row) ==
    LET name == toLower(row.rawTag)
    IN  [MergeTag(g, name) EXCEPT
            !.HAS_TAG = MergeHasTag(@, row.movie, name, row.tagFrequency),
            !.APPLIED_TAG = MergeAppliedTag(@, row.user, name, row.tagTimestamp)]

\* The MERGE/SET clauses of tag_normalization_query for one grouped row.
ApplyTagGroup(g, row) ==
    LET name == trim(toLower(row.rawTag))
    IN  [MergeTag(g, name) EXCEPT
            !.HAS_TAG = MergeHasTag(@, row.movie, name, row.tagFrequency),
            !.APPLIED_TAG = MergeAppliedTag(@, row.user, name, row.tagTimestamp)]

\* tag_normalization_query over its grouped rows in the order the engine
\* yields them (Cypher fixes no order without ORDER BY).
RECURSIVE NormalizeTags(_, _)
NormalizeTags(g, rows) ==
    IF rows = <<>> THEN g ELSE NormalizeTags(ApplyTagGroup(g, Head(rows)), Tail(rows))

\* Every order in which the rows of set S can be yielded.
Orderings(S) ==
    {f \in [1..Cardinality(S) -> S] : \A i, j \in DOMAIN f : i # j => f[i] # f[j]}

\* A delete that matches only the TAGGED relationships whose text needed
\* normalizing.
DeleteTaggedRewritten(g) ==
    [g EXCEPT !.TAGGED =
        SubBagOf(@, {e \in BagToSet(@) : trim(toLower(e.tag)) = e.tag})]

\* MATCH ()-[t:TAGGED]->() DELETE t
DeleteTagged(g) == [g EXCEPT !.TAGGED = EmptyBag]

\* (u)-[r:RATED]->(): the RATED relationships of the User with this userId.
RatedBy(g, userId) == SubBagOf(g.RATED, {e \in BagToSet(g.RATED) : e.user = userId})

\* (d)-[:DIRECTED]->(m): the DIRECTED relationships of the Person with this name.
DirectedBy(g, name) == SubBagOf(g.DIRECTED, {e \in BagToSet(g.DIRECTED) : e.person = name})

\* user_enrichment_query that skips the Users an earlier pass has set.
EnrichUsersOnce(g) ==
    [g EXCEPT !.User = BagOfAll(
        LAMBDA n :
            LET rated == RatedBy(g, n.userId)
                totalRatings == BagSize(rated)
            IN  IF totalRatings = 0 \/ n.totalRatings # Null THEN n
                ELSE [n EXCEPT
                        !.avgRating =
                            Mean(BagSum(rated, [e \in BagToSet(rated) |-> e.rating]),
                                 totalRatings),
                        !.totalRatings = <<totalRatings>>], @)]

\* user_enrichment_query
EnrichUsers(g) ==
    [g EXCEPT !.User = BagOfAll(
        LAMBDA n :
            LET rated == RatedBy(g, n.userId)
                totalRatings == BagSize(rated)
            IN  IF totalRatings = 0 THEN n
                ELSE [n EXCEPT
                        !.avgRating =
                            Mean(BagSum(rated, [e \in BagToSet(rated) |-> e.rating]),
                                 totalRatings),
                        !.totalRatings = <<totalRatings>>], @)]

\* m.imdbRating of the Movie a relationship ends at.
ImdbRating(g, id) == (CHOOSE n \in BagToSet(g.Movie) : n.id = id).imdbRating[1]

\* MATCH (d:Director)-[:DIRECTED]->(m:Movie) ... SET d.avgRating, d.movieCount
DirectorStats(g) ==
    [g EXCEPT !.Person = BagOfAll(
        LAMBDA n :
            LET directed == DirectedBy(g, n.name)
                movieCount == BagSize(directed)
            IN  IF "Director" \notin n.labels \/ movieCount = 0 THEN n
                ELSE [n EXCEPT
                        !.avgRating =
                            Mean(BagSum(directed, [e \in BagToSet(directed) |->
                                                      ImdbRating(g, e.movie)]),
                                 movieCount),
                        !.movieCount = <<movieCount>>], @)]

\* MATCH (a:Actor)-[:ACTED_IN]->(m:Movie) ... SET a.movieCount
ActorCounts(g) ==
    [g EXCEPT !.Person = BagOfAll(
        LAMBDA n :
            LET movieCount ==
                    BagSize(SubBagOf(g.ACTED_IN,
                                     {e \in BagToSet(g.ACTED_IN) : e.person = n.name}))
            IN  IF "Actor" \notin n.labels \/ movieCount = 0 THEN n
                ELSE [n EXCEPT !.movieCount = <<movieCount>>], @)]

\* A usage count taken over APPLIED_TAG (the users of a tag) instead of HAS_TAG.
TagUsageByUsers(g) ==
    [g EXCEPT !.Tag = BagOfAll(
        LAMBDA n :
            LET usageCount ==
                    BagSize(SubBagOf(g.APPLIED_TAG,
                                     {e \in BagToSet(g.APPLIED_TAG) : e.tag = n.name}))
            IN  IF usageCount = 0 THEN n
                ELSE [n EXCEPT !.usageCount = <<usageCount>>], @)]

\* A statistics pass that sets usageCount only where it is not set yet.
TagUsageOnce(g) ==
    [g EXCEPT !.Tag = BagOfAll(
        LAMBDA n :
            LET usageCount ==
                    BagSize(SubBagOf(g.HAS_TAG,
                                     {e \in BagToSet(g.HAS_TAG) : e.tag = n.name}))
            IN  IF usageCount = 0 \/ n.usageCount # Null THEN n
                ELSE [n EXCEPT !.usageCount = <<usageCount>>], @)]

\* MATCH (m:Movie)-[:HAS_TAG]->(t:Tag) ... SET t.usageCount
TagUsage(g) ==
    [g EXCEPT !.Tag = BagOfAll(
        LAMBDA n :
            LET usageCount ==
                    BagSize(SubBagOf(g.HAS_TAG,
                                     {e \in BagToSet(g.HAS_TAG) : e.tag = n.name}))
            IN  IF usageCount = 0 THEN n
                ELSE [n EXCEPT !.usageCount = <<usageCount>>], @)]

\* ------------------------------------------------------- recommendation
\* test_query's literals: {userId: "1"}, r.rating > 4.0, LIMIT 3,
\* rec.imdbRating > 7.0, LIMIT 5.
TestUserId == "1"
LikedThreshold == 40
TopGenres == 3
QualityThreshold == 70
ResultLimit == 5

Min(a, b) == IF a < b THEN a ELSE b

\* count(*) AS genreStrength for genre name gn: the (liked RATED, IN_GENRE) pairs.
GenreStrength(g, gn) ==
    LET liked == SubBagOf(g.RATED, {r \in BagToSet(g.RATED) :
                                      r.user = TestUserId /\ r.rating > LikedThreshold})
    IN  BagSum(liked, [r \in BagToSet(liked) |->
                         BagSize(SubBagOf(g.IN_GENRE,
                                          {e \in BagToSet(g.IN_GENRE) :
                                              e.movie = r.movie /\ e.genre = gn}))])

\* ORDER BY genreStrength DESC LIMIT 3: every set of genres the engine may
\* keep (ties are broken in no specified way).
TopGenreSets(g) ==
    LET cand == {n.name : n \in {x \in BagToSet(g.Genre) : GenreStrength(g, x.name) > 0}}
    IN  {T \in SUBSET cand :
            /\ Cardinality(T) = Min(TopGenres, Cardinality(cand))
            /\ \A a \in T, b \in cand \ T : GenreStrength(g, a) >= GenreStrength(g, b)}

\* test_query without WHERE NOT EXISTS((u)-[:RATED]->(rec)).
RecRowsRatedToo(g, top) ==
    LET userExists == \E u \in BagToSet(g.User) : u.userId = TestUserId
        recs == {m \in BagToSet(g.Movie) :
                    /\ userExists
                    /\ m.imdbRating # Null /\ m.imdbRating[1] > QualityThreshold
                    /\ \E e \in BagToSet(g.IN_GENRE) : e.movie = m.id /\ e.genre \in top}
    IN  { [title |-> k[1], imdbRating |-> k[2],
           genres |-> {e.genre : e \in {x \in BagToSet(g.IN_GENRE) :
                           /\ x.genre \in top
                           /\ \E m \in recs : m.id = x.movie /\ m.title = k[1]
                                              /\ m.imdbRating = k[2]}}]
          : k \in {<<m.title, m.imdbRating>> : m \in recs} }

\* RETURN rec.title, rec.imdbRating, collect(g.name) AS genres over the
\* candidates of the kept genres: unrated by the user, imdbRating > 7.0.
RecRows(g, top) ==
    LET userExists == \E u \in BagToSet(g.User) : u.userId = TestUserId
        recs == {m \in BagToSet(g.Movie) :
                    /\ userExists
                    /\ m.imdbRating # Null /\ m.imdbRating[1] > QualityThreshold
                    /\ ~ \E r \in BagToSet(g.RATED) : r.user = TestUserId /\ r.movie = m.id
                    /\ \E e \in BagToSet(g.IN_GENRE) : e.movie = m.id /\ e.genre \in top}
    IN  { [title |-> k[1], imdbRating |-> k[2],
           genres |-> {e.genre : e \in {x \in BagToSet(g.IN_GENRE) :
                           /\ x.genre \in top
                           /\ \E m \in recs : m.id = x.movie /\ m.title = k[1]
                                              /\ m.imdbRating = k[2]}}]
          : k \in {<<m.title, m.imdbRating>> : m \in recs} }

\* ORDER BY rec.imdbRating DESC LIMIT 5: every result list the engine may return.
Recommendations(g) ==
    UNION { LET rows == RecRows(g, top)
                n == Min(ResultLimit, Cardinality(rows))
            IN  {f \in [1..n -> rows] :
                    /\ \A i, j \in 1..n : i < j =>
                          f[i] # f[j] /\ f[i].imdbRating[1] >= f[j].imdbRating[1]
                    /\ \A r \in rows : (\A i \in 1..n : f[i] # r) =>
                          \A i \in 1..n : f[i].imdbRating[1] >= r.imdbRating[1]}
            : top \in TopGenreSets(g) }

\* --------------------------------------------------------------- program
AllConstraints == {"unique_user_id", "unique_movie_id", "unique_person_name",
                   "unique_tag_name", "unique_genre_name"}

\* The script's graph.query calls, in order (refresh_schema included).
Program ==
    << [op |-> "DROP CONSTRAINT", arg |-> "unique_user_id"],
       [op |-> "DROP CONSTRAINT", arg |-> "unique_movie_id"],
       [op |-> "DROP CONSTRAINT", arg |-> "unique_person_name"],
       [op |-> "DROP CONSTRAINT", arg |-> "unique_tag_name"],
       [op |-> "DROP CONSTRAINT", arg |-> "unique_genre_name"],
       [op |-> "DROP INDEX", arg |-> "movie_id_index"],
       [op |-> "DROP INDEX", arg |-> "user_id_index"],
       [op |-> "DROP INDEX", arg |-> "person_name_index"],
       [op |-> "DROP INDEX", arg |-> "tag_name_index"],
       [op |-> "DROP INDEX", arg |-> "genre_name_index"],
       [op |-> "CREATE CONSTRAINT", arg |-> "unique_user_id"],
       [op |-> "CREATE INDEX", arg |-> "movie_id_index"],
       [op |-> "CREATE INDEX", arg |-> "person_name_index"],
       [op |-> "CREATE INDEX", arg |-> "tag_name_index"],
       [op |-> "movies_query", arg |-> ""],
       [op |-> "label_actors", arg |-> ""],
       [op |-> "label_directors", arg |-> ""],
       [op |-> "ratings_query", arg |-> ""],
       [op |-> "tags_query", arg |-> ""],
       [op |-> "tag_normalization_query", arg |-> ""],
       [op |-> "delete_tagged", arg |-> ""],
       [op |-> "user_enrichment_query", arg |-> ""],
       [op |-> "director_stats", arg |-> ""],
       [op |-> "actor_counts", arg |-> ""],
       [op |-> "tag_usage", arg |-> ""],
       [op |-> "refresh_schema", arg |-> ""],
       [op |-> "test_query", arg |-> ""] >>

\* Position of the (only) statement with operation op.
StmtOf(op) == CHOOSE i \in 1..Len(Program) : Program[i].op = op

\* ----------------------------------------------------------------- state
VARIABLES
    movieFeed,        \* the rows LOAD CSV reads from movies_small.csv
    ratingRows,       \* the rows of ratings.csv
    tagRows,          \* the rows of tags.csv
    graph,            \* the committed content of the database
    constraints,      \* names of the uniqueness constraints that exist
    indexes,          \* names of the indexes that exist
    pc,               \* index in Program of the next statement to run
    offset,           \* rows of the running batched statement already committed
    run,              \* which execution of the script this is
    status,           \* "running" | "aborted" (a query raised)
    stmtStart,        \* the graph when the statement at pc started
    previousRun,      \* the graph the previous execution of the script ended with
    recommendations   \* the rows test_query returned last

vars == <<movieFeed, ratingRows, tagRows, graph, constraints, indexes, pc, offset,
          run, status, stmtStart, previousRun, recommendations>>

inputs == <<movieFeed, ratingRows, tagRows>>
schema == <<constraints, indexes>>

Finished == pc = Len(Program) + 1
\* A script that catches the exception of a failed graph.query and goes on.
AtIgnoringFailure(op) == pc <= Len(Program) /\ Program[pc].op = op

At(op) == status = "running" /\ pc <= Len(Program) /\ Program[pc].op = op

\* A fresh database (the script's first line: MATCH (n) DETACH DELETE n),
\* about to run the first statement.  The CSV files are read when their
\* LOAD CSV statement first runs.
Init ==
    /\ movieFeed = <<>> /\ ratingRows = <<>> /\ tagRows = <<>>
    /\ graph = EmptyGraph
    /\ constraints = {} /\ indexes = {}
    /\ pc = 1 /\ offset = 0 /\ run = 1 /\ status = "running"
    /\ stmtStart = EmptyGraph
    /\ previousRun = EmptyGraph
    /\ recommendations = <<>>

\* The statement at pc completed: the graph is now g.
Complete(g) ==
    /\ graph' = g
    /\ stmtStart' = g
    /\ pc' = pc + 1
    /\ offset' = 0
    /\ UNCHANGED <<run, status, previousRun>>

DropConstraint ==
    /\ At("DROP CONSTRAINT")
    /\ constraints' = constraints \ {Program[pc].arg}
    /\ Complete(graph)
    /\ UNCHANGED <<inputs, indexes, recommendations>>

DropIndex ==
    /\ At("DROP INDEX")
    /\ indexes' = indexes \ {Program[pc].arg}
    /\ Complete(graph)
    /\ UNCHANGED <<inputs, constraints, recommendations>>

CreateConstraint ==
    /\ At("CREATE CONSTRAINT")
    /\ constraints' = constraints \cup {Program[pc].arg}
    /\ Complete(graph)
    /\ UNCHANGED <<inputs, indexes, recommendations>>

CreateIndex ==
    /\ At("CREATE INDEX")
    /\ indexes' = indexes \cup {Program[pc].arg}
    /\ Complete(graph)
    /\ UNCHANGED <<inputs, constraints, recommendations>>

LoadMovies ==
    /\ At("movies_query")
    /\ \E feed \in (IF run = 1 THEN MovieFeeds ELSE {movieFeed}) :
          /\ movieFeed' = feed
          /\ Complete(ApplyMovieRows(graph, feed))
    /\ UNCHANGED <<ratingRows, tagRows, schema, recommendations>>

\* The second run reads a movies_small.csv that has grown since the first:
\* the old rows, then new ones.
LoadGrownMovies ==
    /\ At("movies_query")
    /\ run = 2
    /\ \E feed \in MovieFeeds :
          /\ Len(feed) > Len(movieFeed)
          /\ SubSeq(feed, 1, Len(movieFeed)) = movieFeed
          /\ movieFeed' = feed
          /\ Complete(ApplyMovieRows(graph, feed))
    /\ UNCHANGED <<ratingRows, tagRows, schema, recommendations>>

AddActorLabels ==
    /\ At("label_actors")
    /\ Complete(LabelActors(graph))
    /\ UNCHANGED <<inputs, schema, recommendations>>

AddDirectorLabels ==
    /\ At("label_directors")
    /\ Complete(LabelDirectors(graph))
    /\ UNCHANGED <<inputs, schema, recommendations>>

\* The rows of the batch that starts after the committed ones.
Batch(rows) == SubSeq(rows, offset + 1, Min(offset + BatchRows, Len(rows)))

\* One transaction of ratings_query commits; the statement completes with
\* the transaction that reaches the end of the file.
LoadRatingsBatch ==
    /\ At("ratings_query")
    /\ \E rows \in (IF run = 1 /\ offset = 0 THEN RatingFeeds ELSE {ratingRows}) :
          /\ ratingRows' = rows
          /\ IF offset + BatchRows >= Len(rows)
             THEN Complete(ApplyRatingRows(graph, Batch(rows)))
             ELSE /\ graph' = ApplyRatingRows(graph, Batch(rows))
                  /\ offset' = offset + BatchRows
                  /\ UNCHANGED <<pc, run, status, stmtStart, previousRun>>
    /\ UNCHANGED <<movieFeed, tagRows, schema, recommendations>>

\* A transaction of ratings_query fails at its k-th row, after that row's
\* User was merged: the transaction is rolled back and the query raises.
LoadRatingsBatchFails ==
    /\ At("ratings_query")
    /\ \E rows \in (IF run = 1 /\ offset = 0 THEN RatingFeeds ELSE {ratingRows}) :
          /\ ratingRows' = rows
          /\ \E k \in 1..Len(Batch(rows)) :
                graph' = Rollback(graph,
                            MergeUser(ApplyRatingRows(graph, SubSeq(Batch(rows), 1, k - 1)),
                                      Batch(rows)[k].userId))
    /\ status' = "aborted"
    /\ UNCHANGED <<movieFeed, tagRows, schema, pc, offset, run, stmtStart, previousRun,
                   recommendations>>

LoadTagsBatch ==
    /\ At("tags_query")
    /\ \E rows \in (IF run = 1 /\ offset = 0 THEN TagFeeds ELSE {tagRows}) :
          /\ tagRows' = rows
          /\ IF offset + BatchRows >= Len(rows)
             THEN Complete(ApplyTagRows(graph, Batch(rows)))
             ELSE /\ graph' = ApplyTagRows(graph, Batch(rows))
                  /\ offset' = offset + BatchRows
                  /\ UNCHANGED <<pc, run, status, stmtStart, previousRun>>
    /\ UNCHANGED <<movieFeed, ratingRows, schema, recommendations>>

LoadTagsBatchFails ==
    /\ At("tags_query")
    /\ \E rows \in (IF run = 1 /\ offset = 0 THEN TagFeeds ELSE {tagRows}) :
          /\ tagRows' = rows
          /\ \E k \in 1..Len(Batch(rows)) :
                graph' = Rollback(graph,
                            MergeUser(ApplyTagRows(graph, SubSeq(Batch(rows), 1, k - 1)),
                                      Batch(rows)[k].userId))
    /\ status' = "aborted"
    /\ UNCHANGED <<movieFeed, ratingRows, schema, pc, offset, run, stmtStart, previousRun,
                   recommendations>>

NormalizeTagsQuery ==
    /\ At("tag_normalization_query")
    /\ \E rows \in Orderings(TagGroups(graph)) : Complete(NormalizeTags(graph, rows))
    /\ UNCHANGED <<inputs, schema, recommendations>>

DeleteTaggedQuery ==
    /\ At("delete_tagged")
    /\ Complete(DeleteTagged(graph))
    /\ UNCHANGED <<inputs, schema, recommendations>>

EnrichUsersQuery ==
    /\ At("user_enrichment_query")
    /\ Complete(EnrichUsers(graph))
    /\ UNCHANGED <<inputs, schema, recommendations>>

DirectorStatsQuery ==
    /\ At("director_stats")
    /\ Complete(DirectorStats(graph))
    /\ UNCHANGED <<inputs, schema, recommendations>>

ActorCountsQuery ==
    /\ At("actor_counts")
    /\ Complete(ActorCounts(graph))
    /\ UNCHANGED <<inputs, schema, recommendations>>

TagUsageQuery ==
    /\ At("tag_usage")
    /\ Complete(TagUsage(graph))
    /\ UNCHANGED <<inputs, schema, recommendations>>

\* graph.refresh_schema(): reads the schema, writes nothing.
RefreshSchema ==
    /\ At("refresh_schema")
    /\ Complete(graph)
    /\ UNCHANGED <<inputs, schema, recommendations>>

TestQuery ==
    /\ At("test_query")
    /\ \E result \in Recommendations(graph) : recommendations' = result
    /\ Complete(graph)
    /\ UNCHANGED <<inputs, schema>>

\* Any graph.query call may raise (the store or the CSV source is
\* unreachable, a statement is rejected): its transaction is rolled back, the
\* exception is not caught and the script ends.
QueryFails ==
    /\ status = "running" /\ pc <= Len(Program)
    /\ status' = "aborted"
    /\ UNCHANGED <<inputs, graph, schema, pc, offset, run, stmtStart, previousRun,
                   recommendations>>

\* The script is run again on the database it left.
RunAgain ==
    /\ status = "running" /\ Finished /\ run < MaxRuns
    /\ run' = run + 1
    /\ pc' = 1
    /\ previousRun' = graph
    /\ UNCHANGED <<inputs, graph, schema, offset, status, stmtStart, recommendations>>

Next ==
    \/ DropConstraint \/ DropIndex \/ CreateConstraint \/ CreateIndex
    \/ LoadMovies \/ AddActorLabels \/ AddDirectorLabels
    \/ LoadRatingsBatch \/ LoadRatingsBatchFails
    \/ LoadTagsBatch \/ LoadTagsBatchFails
    \/ NormalizeTagsQuery \/ DeleteTaggedQuery
    \/ EnrichUsersQuery \/ DirectorStatsQuery \/ ActorCountsQuery \/ TagUsageQuery
    \/ RefreshSchema \/ TestQuery
    \/ QueryFails \/ RunAgain

Spec == Init /\ [][Next]_vars

\* The script re-run on CSV files of which the movie file may have grown.
NextGrowingFeed == Next \/ LoadGrownMovies

SpecGrowingFeed == Init /\ [][NextGrowingFeed]_vars

\* ---------------------------------------------------------------- claims
\* Vocabulary of the properties below.
KnownMovieIds == {movieFeed[i].movieId : i \in DOMAIN movieFeed}
ValidRows(rows) == {i \in DOMAIN rows : rows[i].movieId \in KnownMovieIds}
Normalized(rawTag) == trim(toLower(rawTag))
AfterStmt(op) == pc > StmtOf(op)

\* The rows of tags.csv with a known movieId whose normalized text is name.
Applications(name) == {i \in ValidRows(tagRows) : Normalized(tagRows[i].tag) = name}

\* Node and relationship counts and every derived attribute of graph g.
Summary(g) ==
    [nodes |-> <<BagSize(g.Movie), BagSize(g.Person), BagSize(g.Genre), BagSize(g.User),
                 BagSize(g.Tag)>>,
     edges |-> <<BagSize(g.DIRECTED), BagSize(g.ACTED_IN), BagSize(g.IN_GENRE),
                 BagSize(g.RATED), BagSize(g.TAGGED), BagSize(g.HAS_TAG),
                 BagSize(g.APPLIED_TAG)>>,
     users |-> {<<n.userId, n.avgRating, n.totalRatings>> : n \in BagToSet(g.User)},
     persons |-> {<<n.name, n.avgRating, n.movieCount>> : n \in BagToSet(g.Person)},
     tags |-> {<<n.name, n.usageCount>> : n \in BagToSet(g.Tag)},
     weights |-> BagToSet(g.HAS_TAG)]

\* C1: a second run of the whole script on the same CSV files ends with the
\* same node counts, relationship counts and derived attribute values as the
\* first run ended with.
C1_SecondRunSameGraph ==
    (run = 2 /\ Finished) => Summary(graph) = Summary(previousRun)

\* C2: over rating rows that name each (user, movie) pair once, however often
\* the rating loader has run there is at most one RATED relationship between
\* a User and a Movie.
C2_AtMostOneRatedPerPair ==
    (\A i, j \in DOMAIN ratingRows :
        i # j => <<ratingRows[i].userId, ratingRows[i].movieId>>
                 # <<ratingRows[j].userId, ratingRows[j].movieId>>)
    => \A e \in BagToSet(graph.RATED) :
          BagSize(SubBagOf(graph.RATED,
                           {x \in BagToSet(graph.RATED) :
                               x.user = e.user /\ x.movie = e.movie})) <= 1

\* RATED relationships the rating loader has created so far: one per row with
\* a known movieId, per run, for every row the loader has got past.
RatedExpected ==
    (run - 1) * Cardinality(ValidRows(ratingRows))
    + (IF AfterStmt("ratings_query") THEN Cardinality(ValidRows(ratingRows))
       ELSE IF pc = StmtOf("ratings_query")
            THEN Cardinality(ValidRows(SubSeq(ratingRows, 1, offset)))
            ELSE 0)

\* C3: every RATED, TAGGED and HAS_TAG relationship ends at an existing Movie
\* node; the only Movie nodes are those of the movie feed (a loader creates
\* none); a row with an unknown movieId stops nothing: the loader has created
\* one RATED (TAGGED) relationship for every row with a known movieId that it
\* has processed, the rows after a dropped one included; and every HAS_TAG
\* and APPLIED_TAG relationship comes from a tag row with a known movieId.
C3_ReferentialGuard ==
    /\ \A e \in BagToSet(graph.RATED) \cup BagToSet(graph.TAGGED)
                \cup BagToSet(graph.HAS_TAG) : MovieExists(graph, e.movie)
    /\ \A n \in BagToSet(graph.Movie) : n.id \in KnownMovieIds
    /\ BagSize(graph.RATED) = RatedExpected
    /\ (pc = StmtOf("tag_normalization_query"))
          => BagSize(graph.TAGGED) = Cardinality(ValidRows(tagRows))
    /\ \A e \in BagToSet(graph.HAS_TAG) :
          \E i \in Applications(e.tag) : tagRows[i].movieId = e.movie
    /\ \A e \in BagToSet(graph.APPLIED_TAG) :
          \E i \in Applications(e.tag) : tagRows[i].userId = e.user

\* C3 witness: the rating loader completed over a file in which a row with an
\* unknown movieId precedes a row with a known one; the later row's RATED
\* relationship exists, no relationship to the unknown movie does.
C3_Witness ==
    /\ status = "running" /\ pc = StmtOf("ratings_query") + 1
    /\ \E i, j \in DOMAIN ratingRows :
          /\ i < j
          /\ i \notin ValidRows(ratingRows) /\ j \in ValidRows(ratingRows)
          /\ \E e \in BagToSet(graph.RATED) :
                e.user = ratingRows[j].userId /\ e.movie = ratingRows[j].movieId
          /\ ~ \E e \in BagToSet(graph.RATED) : e.movie = ratingRows[i].movieId
          /\ \E n \in BagToSet(graph.User) : n.userId = ratingRows[i].userId

\* C4: right after tag normalization, the weight (in tenths) of every HAS_TAG
\* relationship from m to t is the number of raw tag applications loaded for
\* m, over all users and timestamps, whose trimmed lower-cased text is t.name.
C4_WeightIsTotalFrequency ==
    (pc = StmtOf("delete_tagged")) =>
        \A e \in BagToSet(graph.HAS_TAG) :
            e.weight = BagSize(SubBagOf(graph.TAGGED,
                                        {x \in BagToSet(graph.TAGGED) :
                                            x.movie = e.movie /\ Normalized(x.tag) = e.tag}))

\* Tag name is one into which differently written raw tags of one Movie collapsed.
Collapsed(name) ==
    \E i, j \in Applications(name) :
        tagRows[i].movieId = tagRows[j].movieId /\ tagRows[i].tag # tagRows[j].tag

\* C5 as stated: after the derived-statistics pass, a Tag into which raw tags
\* of one Movie that differ only by case or surrounding whitespace collapsed
\* has usageCount equal to the number of raw applications that collapsed
\* into it.
C5_UsageCountIsApplicationCount ==
    AfterStmt("tag_usage") =>
        \A n \in BagToSet(graph.Tag) :
            Collapsed(n.name) => n.usageCount = <<Cardinality(Applications(n.name))>>

\* C5 amended: such a Tag is a single node and its usageCount is the number
\* of distinct Movies the raw tags were applied to (1 when they were all
\* applied to the same Movie), however many applications there were.
C5_UsageCountIsMovieCount ==
    AfterStmt("tag_usage") =>
        \A n \in BagToSet(graph.Tag) :
            Collapsed(n.name) =>
                /\ CopiesIn(n, graph.Tag) = 1
                /\ \A x \in BagToSet(graph.Tag) : x.name = n.name => x = n
                /\ n.usageCount =
                     <<Cardinality({tagRows[i].movieId : i \in Applications(n.name)})>>

\* C5 witness: "GM " and "gm" were applied to the same Movie, twice or more in
\* all, and the one resulting Tag has usageCount 1.
C5_Witness ==
    /\ AfterStmt("tag_usage")
    /\ \E n \in BagToSet(graph.Tag) :
          /\ Collapsed(n.name)
          /\ Cardinality(Applications(n.name)) >= 2
          /\ n.usageCount = <<1>>

\* C6: once the derived statistics have run, every Person labeled Director has
\* movieCount equal to the number of its DIRECTED relationships and avgRating
\* equal to the mean imdbRating of the movies directed, the Persons that are
\* also Actors included.
C6_DirectorStats ==
    AfterStmt("tag_usage") =>
        \A n \in BagToSet(graph.Person) :
            "Director" \in n.labels =>
                LET directed == DirectedBy(graph, n.name)
                IN  /\ n.movieCount = <<BagSize(directed)>>
                    /\ n.avgRating =
                         Mean(BagSum(directed, [e \in BagToSet(directed) |-> ImdbRating(graph, e.movie)]),
                              BagSize(directed))

\* C7: outside the tag stage (before tags_query starts and after the TAGGED
\* delete completed, in every run) the graph has no TAGGED relationship.
C7_NoTaggedOutsideTagStage ==
    (pc < StmtOf("tags_query") \/ AfterStmt("delete_tagged"))
        => graph.TAGGED = EmptyBag

\* C7 witness: the tag stage of a second run has completed over a file with
\* tag rows for known movies.
C7_Witness ==
    /\ run = 2 /\ pc = StmtOf("delete_tagged") + 1
    /\ ValidRows(tagRows) # {}
    /\ graph.HAS_TAG # EmptyBag
    /\ graph.TAGGED = EmptyBag

\* C8: from the user statistics pass to the end of the run, every User with a
\* RATED relationship has totalRatings equal to the number of its RATED
\* relationships now and avgRating equal to their mean (avgRating x
\* totalRatings = sum of the ratings), whatever an earlier pass stored; a User
\* without a RATED relationship has neither attribute.
C8_UserStatsCurrent ==
    AfterStmt("user_enrichment_query") =>
        \A n \in BagToSet(graph.User) :
            LET rated == RatedBy(graph, n.userId)
            IN  IF BagSize(rated) = 0
                THEN n.avgRating = Null /\ n.totalRatings = Null
                ELSE /\ n.totalRatings = <<BagSize(rated)>>
                     /\ n.avgRating # Null
                     /\ n.avgRating[1] * BagSize(rated)
                          = BagSum(rated, [e \in BagToSet(rated) |-> e.rating]) * n.avgRating[2]

\* C8 witness: the pass of a second run has just run; a User has more RATED
\* relationships than when the first run's pass ran and carries the new
\* count, and a User without ratings exists.
C8_Witness ==
    /\ run = 2 /\ pc = StmtOf("user_enrichment_query") + 1
    /\ \E n \in BagToSet(graph.User) :
          /\ n.totalRatings # Null /\ n.totalRatings[1] >= 2
          /\ \E o \in BagToSet(previousRun.User) :
                o.userId = n.userId /\ o.totalRatings # Null
                /\ o.totalRatings[1] < n.totalRatings[1]
    /\ \E n \in BagToSet(graph.User) : BagSize(RatedBy(graph, n.userId)) = 0

\* C9: once the schema statements (drops, then creates) have completed, a
\* uniqueness constraint exists for each of the five keys.
C9_FiveConstraints ==
    (pc >= StmtOf("movies_query")) => AllConstraints \subseteq constraints

LabelsMatchEdges(g, n) ==
    /\ "Actor" \in n.labels <=> \E e \in BagToSet(g.ACTED_IN) : e.person = n.name
    /\ "Director" \in n.labels <=> \E e \in BagToSet(g.DIRECTED) : e.person = n.name

\* A step keeps every label of every Person the graph already had.
LabelsKept ==
    \A n \in BagToSet(graph.Person) :
        \E x \in BagToSet(graph'.Person) : x.name = n.name /\ n.labels \subseteq x.labels

\* C11: from the completion of the role classifier to the end of each run, a
\* Person has the Actor label iff it has an ACTED_IN relationship and the
\* Director label iff it has a DIRECTED relationship (also after the movie
\* file grew and gave a Person a new relationship); and no step of any run
\* takes a label from a Person.
C11_RoleLabels ==
    /\ [](AfterStmt("label_directors") =>
            \A n \in BagToSet(graph.Person) : LabelsMatchEdges(graph, n))
    /\ [][LabelsKept]_vars

\* C11 witness: the classifier of a second run has run; a Person that ended
\* the first run as Actor only has gained a DIRECTED relationship and now has
\* both labels, and some Person that only directs is Director and not Actor.
C11_Witness ==
    /\ run = 2 /\ pc = StmtOf("label_directors") + 1
    /\ \E n \in BagToSet(graph.Person) :
          /\ n.labels = {"Actor", "Director"}
          /\ \E o \in BagToSet(previousRun.Person) :
                o.name = n.name /\ o.labels = {"Actor"}
    /\ \E n \in BagToSet(graph.Person) :
          /\ n.labels = {"Director"}
          /\ ~ \E e \in BagToSet(graph.ACTED_IN) : e.person = n.name

\* No two nodes of bag B have the same key, keys being the set of B's keys.
UniqueBy(B, keys) == BagSize(B) = Cardinality(keys)

\* C12: in every state, of every run, no two nodes of a label share the key:
\* one Movie per id, one Person per name, one Genre per name, one User per
\* userId (rating and tag loader together), one Tag per name.
C12_UniqueKeys ==
    /\ UniqueBy(graph.Movie, {n.id : n \in BagToSet(graph.Movie)})
    /\ UniqueBy(graph.Person, {n.name : n \in BagToSet(graph.Person)})
    /\ UniqueBy(graph.Genre, {n.name : n \in BagToSet(graph.Genre)})
    /\ UniqueBy(graph.User, {n.userId : n \in BagToSet(graph.User)})
    /\ UniqueBy(graph.Tag, {n.name : n \in BagToSet(graph.Tag)})

\* C12 witness: a second run has ended; a userId is in a rating row and in a
\* tag row and one User node has it; a Person named in two movie rows (once
\* with surrounding blanks) is one node; a Tag written two ways is one node.
C12_Witness ==
    /\ run = 2 /\ Finished
    /\ \E i \in DOMAIN ratingRows, j \in DOMAIN tagRows :
          /\ ratingRows[i].userId = tagRows[j].userId
          /\ \E n \in BagToSet(graph.User) : n.userId = ratingRows[i].userId
    /\ \E n \in BagToSet(graph.Person) :
          Cardinality({e.movie : e \in {x \in BagToSet(graph.ACTED_IN) :
                                          x.person = n.name}}) = 2
    /\ \E n \in BagToSet(graph.Tag) : Collapsed(n.name)

\* Text s has no upper-case letter and no blank at either end.
IsNormalized(s) ==
    /\ \A i \in DOMAIN s : LowerOf(s[i]) = s[i]
    /\ s # <<>> => ~IsSpace(s[1]) /\ ~IsSpace(s[Len(s)])

\* C13: every Tag's name is trimmed and lower-cased; once the normalization
\* has run, the raw tags of the tag rows (known movie) that differ only by
\* case or surrounding blanks are one Tag node, named by their trimmed
\* lower-cased text, and a Movie has at most one HAS_TAG relationship to a Tag.
C13_TagsNormalized ==
    /\ \A n \in BagToSet(graph.Tag) : IsNormalized(n.name)
    /\ \A e \in BagToSet(graph.HAS_TAG) :
          BagSize(SubBagOf(graph.HAS_TAG,
                           {x \in BagToSet(graph.HAS_TAG) :
                               x.movie = e.movie /\ x.tag = e.tag})) = 1
    /\ AfterStmt("tag_normalization_query") =>
          \A i \in ValidRows(tagRows) :
              BagSize(SubBagOf(graph.Tag,
                               {n \in BagToSet(graph.Tag) :
                                   toLower(n.name) = trim(toLower(tagRows[i].tag))})) = 1

\* C13 witness: "GM " and "gm" were applied to one Movie; the normalization
\* has run; there is one Tag, named "gm", and one HAS_TAG relationship.
C13_Witness ==
    /\ pc = StmtOf("tag_normalization_query") + 1
    /\ \E i, j \in ValidRows(tagRows) :
          tagRows[i].tag # tagRows[j].tag /\ tagRows[i].movieId = tagRows[j].movieId
    /\ BagToSet(graph.Tag) = {[name |-> <<"g", "m">>, usageCount |-> Null]}
    /\ BagSize(graph.Tag) = 1
    /\ BagSize(graph.HAS_TAG) = 1

\* The step is a graph.query call that raised.
Fails == status = "running" /\ status' = "aborted"

\* C14: once a query has failed no statement runs any more (nothing changes);
\* the failing call itself leaves the graph, the schema and the position as
\* they were; and the graph it leaves is the graph the last completed
\* statement left, plus (in a batched loader) the rows of the transactions
\* that committed.
C14_FailureStopsPipeline ==
    /\ [][status # "aborted"]_vars
    /\ [][Fails => /\ graph' = graph /\ pc' = pc /\ offset' = offset
                   /\ UNCHANGED <<schema, recommendations>>]_vars
    /\ [](status = "aborted" =>
            graph = CASE pc = StmtOf("ratings_query") ->
                           ApplyRatingRows(stmtStart, SubSeq(ratingRows, 1, offset))
                      [] pc = StmtOf("tags_query") ->
                           ApplyTagRows(stmtStart, SubSeq(tagRows, 1, offset))
                      [] OTHER -> stmtStart)

\* C14 witness: the tag loader failed in its second transaction; the ratings
\* and the first transaction's TAGGED relationship are in the graph and the
\* normalization never ran.
C14_Witness ==
    /\ status = "aborted" /\ run = 1
    /\ pc = StmtOf("tags_query") /\ offset > 0 /\ offset < Len(tagRows)
    /\ BagSize(graph.RATED) > 0
    /\ BagSize(graph.TAGGED) = offset
    /\ BagSize(graph.Tag) = 0

\* C15: after the normalization, the APPLIED_TAG relationships are one per
\* (user, tag name) such that a tag row of that user with a known movie
\* normalizes to that name, and none else; the timestamp is that of one of
\* those rows.
C15_OneAppliedTagPerUserAndTag ==
    AfterStmt("tag_normalization_query") =>
        /\ \A e \in BagToSet(graph.APPLIED_TAG) :
              /\ BagSize(SubBagOf(graph.APPLIED_TAG,
                                  {x \in BagToSet(graph.APPLIED_TAG) :
                                      x.user = e.user /\ x.tag = e.tag})) = 1
              /\ \E n \in BagToSet(graph.Tag) : n.name = e.tag
              /\ \E i \in Applications(e.tag) :
                    tagRows[i].userId = e.user /\ tagRows[i].timestamp = e.timestamp
        /\ \A i \in ValidRows(tagRows) :
              \E e \in BagToSet(graph.APPLIED_TAG) :
                  e.user = tagRows[i].userId /\ e.tag = Normalized(tagRows[i].tag)

\* C15 witness: a user applied "GM " and "gm" at different times to two
\* movies; after the normalization the user has one APPLIED_TAG relationship.
C15_Witness ==
    /\ pc = StmtOf("tag_normalization_query") + 1
    /\ \E i, j \in ValidRows(tagRows) :
          /\ tagRows[i].userId = tagRows[j].userId
          /\ tagRows[i].tag # tagRows[j].tag
          /\ tagRows[i].timestamp # tagRows[j].timestamp
          /\ Normalized(tagRows[i].tag) = Normalized(tagRows[j].tag)
    /\ BagSize(graph.APPLIED_TAG) = 1

\* The Movies user id has a RATED relationship to.
RatedMovies(g, id) == {r.movie : r \in {x \in BagToSet(g.RATED) : x.user = id}}

\* C16: every row the recommendation query returned is the title and rating
\* of a Movie its user (the script asks for userId "1") has no RATED
\* relationship to; and the step that runs the query leaves the graph and the
\* schema as they were.
C16_RecommendsUnratedReadOnly ==
    /\ [](Finished =>
            \A i \in DOMAIN recommendations :
                \E m \in BagToSet(graph.Movie) :
                    /\ m.title = recommendations[i].title
                    /\ m.imdbRating = recommendations[i].imdbRating
                    /\ m.id \notin RatedMovies(graph, TestUserId))
    /\ [][At("test_query") => graph' = graph /\ UNCHANGED schema]_vars

\* C16 witness: the query returned a row although the user rated, above the
\* liking threshold, a Movie that passes the quality threshold in a preferred
\* genre: that Movie is the one left out.
C16_Witness ==
    /\ Finished
    /\ Len(recommendations) > 0
    /\ \E m \in BagToSet(graph.Movie) :
          /\ m.id \in RatedMovies(graph, TestUserId)
          /\ m.imdbRating # Null /\ m.imdbRating[1] > QualityThreshold
          /\ \E r \in BagToSet(graph.RATED) :
                r.user = TestUserId /\ r.movie = m.id /\ r.rating > LikedThreshold
          /\ \A i \in DOMAIN recommendations : recommendations[i].title # m.title

\* The transactions (chunks of BatchRows rows) a batched loader cuts rows into.
Chunks(rows) ==
    [i \in 1..((Len(rows) + BatchRows - 1) \div BatchRows) |->
        SubSeq(rows, (i - 1) * BatchRows + 1, Min(i * BatchRows, Len(rows)))]

RECURSIVE Concat(_)
Concat(chunks) == IF chunks = <<>> THEN <<>> ELSE Head(chunks) \o Concat(Tail(chunks))

\* The rows in every order of whole chunks: each serial order in which
\* isolated transactions can commit.
ChunkOrders(rows) ==
    {Concat([i \in DOMAIN p |-> Chunks(rows)[p[i]]]) :
        p \in Orderings(DOMAIN Chunks(rows))}

\* C17: when a batched loader is about to start, for every file it may read,
\* committing its chunks in any order leaves the same graph (the same User
\* nodes and RATED / TAGGED relationships with the same attributes) as
\* committing them in file order.
C17_ChunksCommute ==
    /\ (pc = StmtOf("ratings_query") /\ offset = 0) =>
          \A rows \in (IF run = 1 THEN RatingFeeds ELSE {ratingRows}) :
              \A o \in ChunkOrders(rows) :
                  ApplyRatingRows(graph, o) = ApplyRatingRows(graph, rows)
    /\ (pc = StmtOf("tags_query") /\ offset = 0) =>
          \A rows \in (IF run = 1 THEN TagFeeds ELSE {tagRows}) :
              \A o \in ChunkOrders(rows) :
                  ApplyTagRows(graph, o) = ApplyTagRows(graph, rows)

\* C17 witness: the rating loader has committed its first chunk and a later
\* chunk has a row of the same user, both for known movies; committing the
\* later rows first and the committed ones after gives the graph that
\* finishing in file order gives.
C17_Witness ==
    /\ status = "running" /\ pc = StmtOf("ratings_query")
    /\ offset > 0 /\ offset < Len(ratingRows)
    /\ \E i \in 1..offset, j \in (offset + 1)..Len(ratingRows) :
          /\ ratingRows[i].userId = ratingRows[j].userId
          /\ {i, j} \subseteq ValidRows(ratingRows)
    /\ LET done == SubSeq(ratingRows, 1, offset)
           rest == SubSeq(ratingRows, offset + 1, Len(ratingRows))
       IN  /\ graph = ApplyRatingRows(stmtStart, done)
           /\ ApplyRatingRows(ApplyRatingRows(stmtStart, rest), done)
                 = ApplyRatingRows(graph, rest)
           /\ BagSize(ApplyRatingRows(graph, rest).RATED) > BagSize(graph.RATED)

\* The HAS_TAG relationships of graph g that end at the Tag called name.
TaggedMovies(g, name) ==
    SubBagOf(g.HAS_TAG, {e \in BagToSet(g.HAS_TAG) : e.tag = name})

\* C18: after the tag statistics of any run, a Tag with an incoming HAS_TAG
\* relationship has usageCount equal to the number of those relationships
\* now in the graph, which is the number of distinct Movies carrying the tag,
\* whatever value an earlier run left.
C18_UsageCountIsHasTagCount ==
    AfterStmt("tag_usage") =>
        \A n \in BagToSet(graph.Tag) :
            BagSize(TaggedMovies(graph, n.name)) > 0 =>
                /\ n.usageCount = <<BagSize(TaggedMovies(graph, n.name))>>
                /\ n.usageCount =
                     <<Cardinality({e.movie : e \in BagToSet(TaggedMovies(graph, n.name))})>>

\* C18 witness: the first run left a Tag with usageCount 1; the movie file
\* grew, a second Movie now carries the tag and the second run's statistics
\* have set usageCount to 2.
C18_Witness ==
    /\ run = 2 /\ AfterStmt("tag_usage")
    /\ \E n \in BagToSet(graph.Tag) :
          /\ n.usageCount = <<2>>
          /\ \E o \in BagToSet(previousRun.Tag) : o.name = n.name /\ o.usageCount = <<1>>

\* The userIds of the rows of a file.
UsersOfRows(rows) == {rows[i].userId : i \in DOMAIN rows}

\* The User nodes of graph g without a RATED relationship.
Unrated(g) == {n \in BagToSet(g.User) : BagSize(RatedBy(g, n.userId)) = 0}

\* C19: once a loader has run, every userId of its file has a User node,
\* also when the row's movieId is unknown and the row wrote no relationship;
\* and a User without a RATED relationship has neither avgRating nor
\* totalRatings, in every state up to the end of the pipeline.
C19_UserOfDroppedRow ==
    /\ AfterStmt("ratings_query") =>
          UsersOfRows(ratingRows) \subseteq {n.userId : n \in BagToSet(graph.User)}
    /\ AfterStmt("tags_query") =>
          UsersOfRows(tagRows) \subseteq {n.userId : n \in BagToSet(graph.User)}
    /\ \A n \in Unrated(graph) : n.avgRating = Null /\ n.totalRatings = Null

\* C19 witness: the pipeline has ended; a user's only rows name unknown
\* movies; the User node is there, unrated, without statistics, next to a
\* User that has them.
C19_Witness ==
    /\ Finished
    /\ \E n \in Unrated(graph) :
          /\ n.userId \in UsersOfRows(ratingRows)
          /\ \A i \in DOMAIN ratingRows :
                ratingRows[i].userId = n.userId => i \notin ValidRows(ratingRows)
          /\ \A i \in DOMAIN tagRows :
                tagRows[i].userId = n.userId => i \notin ValidRows(tagRows)
          /\ n.avgRating = Null /\ n.totalRatings = Null
    /\ \E n \in BagToSet(graph.User) : n.totalRatings # Null

\* C20: from the completion of the role classifier to the end of the run
\* every Person has the Actor or the Director label; and in every state
\* every Person has a DIRECTED or an ACTED_IN relationship.
C20_EveryPersonHasRole ==
    /\ AfterStmt("label_directors") =>
          \A n \in BagToSet(graph.Person) : n.labels \cap {"Actor", "Director"} # {}
    /\ \A n \in BagToSet(graph.Person) :
          \/ \E e \in BagToSet(graph.DIRECTED) : e.person = n.name
          \/ \E e \in BagToSet(graph.ACTED_IN) : e.person = n.name

\* C20 witness: the classifier has run over a Person that only directs, a
\* Person that only acts and a Person that does both.
C20_Witness ==
    /\ pc = StmtOf("label_directors") + 1
    /\ \E a, b, c \in BagToSet(graph.Person) :
          /\ a.labels = {"Director"}
          /\ b.labels = {"Actor"}
          /\ c.labels = {"Actor", "Director"}

====
